---- MODULE Spec2Model ----
(***************************************************************************)
(* PyTestRunner (src/py_test_runner.py): one invocation of main() as a     *)
(* state machine over a small file system, a Docker daemon whose calls may *)
(* fault, and a wall clock.  Every per-invocation variable is a function   *)
(* of the invocation ("run"); the file system and the clock are shared.    *)
(***************************************************************************)
EXTENDS Integers, Sequences, FiniteSets, TLC

(***************************************************************************)
(* Bounds of the model.                                                    *)
(***************************************************************************)
\* Largest number of --inputs paths a configuration declares.
MaxInputs == 1
\* Largest in-container exit code (StatusCode) the daemon reports.
MaxExitCode == 2

\* Invocations.  Spec starts only the first one.
Runs == {1, 2}

(***************************************************************************)
(* Program constants.  Time is counted in milliseconds.                    *)
(***************************************************************************)
\* WorkspaceManager.__exit__: timeout = 15 (seconds)
timeout == 15000
\* WorkspaceManager.__exit__: interval = 0.5 (seconds)
interval == 500

(***************************************************************************)
(* File names.  NameOrder lists the names the model uses in the order      *)
(* Python's sorted() gives them (code point order of str).                 *)
(***************************************************************************)
NameOrder ==
    <<"__pycache__", "a.log", "data.csv", "old.txt", "output.txt",
      "requirements.txt", "script.py">>

Names == {NameOrder[i] : i \in DOMAIN NameOrder}

Rank(n) == CHOOSE i \in DOMAIN NameOrder : NameOrder[i] = n

\* Directories: the working directory, ./results, and the names mkdtemp() may
\* hand out.
TempDirs == {"tmp1", "tmp2"}

Dirs == {"cwd", "results"} \cup TempDirs

\* What a directory entry holds: nothing, the content of a declared source
\* file, content left by an earlier invocation, content written by the user
\* script, or a sub-directory made by the user script.
Tags == {"absent", "source", "old", "written", "dir"}

FileTags == {"source", "old", "written"}

EmptyDir == [n \in Names |-> "absent"]

Path(d, n) == [dir |-> d, name |-> n]

ScriptPaths == {Path("cwd", "script.py"), Path("results", "script.py")}

ReqsPaths == {Path("cwd", "requirements.txt"), Path("results", "requirements.txt")}

InputPaths == {Path("cwd", "data.csv"), Path("results", "data.csv")}

InputLists == UNION {[1..k -> InputPaths] : k \in 0..MaxInputs}

\* ScriptConfig (script_args and python_version only shape the command line).
Configs ==
    [script_path : ScriptPaths, reqs_path : ReqsPaths,
     input_paths : InputLists, json_output : BOOLEAN]

Range(s) == {s[i] : i \in DOMAIN s}

Declared(c) == {c.script_path, c.reqs_path} \cup Range(c.input_paths)

VARIABLES
    fs_dirs,        \* directories that exist
    fs_entries,     \* fs_entries[d][n]: what directory d holds under name n
    fs0,            \* history: the file system when the invocation began
    clock,          \* time.time(), in milliseconds
    pc,             \* pc[r]: where invocation r is
    config,         \* ScriptConfig of r
    temp_dir,       \* WorkspaceManager.temp_dir ("None" before mkdtemp)
    initial_files,  \* WorkspaceManager.initial_files
    start_time,     \* __exit__'s start_time
    container,      \* DockerRunner.run's local container ("None" or a handle)
    exit_code,      \* DockerRunner.run's local exit_code (-1: unassigned)
    logs_bytes,     \* DockerRunner.run's local logs_bytes
    container_logs, \* DockerRunner.run's local container_logs
    run_result,     \* the ScriptResult DockerRunner.run is about to return
    result,         \* main's local result
    captured_files, \* main's local captured_files
    exc,            \* the exception in flight ("None": none)
    determined,     \* history: exc, result and captured_files when __exit__ began
    observed,       \* history: the StatusCode wait() gave and the status classified
    ops,            \* history: the calls made, in order, with their outcome
    stdout,         \* what r wrote to sys.stdout
    stderr,         \* what r wrote to sys.stderr
    payload,        \* the data handle_exit was given
    exit_status,    \* the argument of sys.exit (-1: still running)
    results_at_exit \* history: ./results as it was when handle_exit ran

fsVars == <<fs_dirs, fs_entries>>

wsVars == <<temp_dir, initial_files, start_time>>

runVars == <<container, exit_code, logs_bytes, container_logs, run_result>>

mainVars == <<result, captured_files, exc>>

outVars == <<stdout, payload, exit_status, results_at_exit>>

histVars == <<fs0, determined, observed>>

vars ==
    <<fs_dirs, fs_entries, fs0, clock, pc, config, temp_dir, initial_files,
      start_time, container, exit_code, logs_bytes, container_logs, run_result,
      result, captured_files, exc, determined, observed, ops, stdout, stderr,
      results_at_exit,
      payload, exit_status>>

(***************************************************************************)
(* File system primitives.                                                 *)
(***************************************************************************)
\* Path.is_file()
is_file(p) == p.dir \in fs_dirs /\ fs_entries[p.dir][p.name] \in FileTags

\* Path.iterdir(), names only
iterdir(d) == {n \in Names : fs_entries[d][n] # "absent"}

\* An rmtree that leaves what the directory held.
rmtree_keeps_entries(entries, d) == entries

\* shutil.rmtree(d) that succeeds, applied to (dirs, entries)
rmtree_dirs(dirs, d) == dirs \ {d}

rmtree_entries(entries, d) == [entries EXCEPT ![d] = EmptyDir]

\* A mkdtemp that gives every caller the same name.
mkdtemp_fixed_name(dirs) == "tmp1"

\* tempfile.mkdtemp(): a directory name no existing directory has.
mkdtemp(dirs) == CHOOSE d \in TempDirs : d \notin dirs

\* The entries after shutil.copy has copied the files srcs[1..k] (paths) into
\* directory dst, one after the other.
RECURSIVE copy_all(_, _, _, _)
copy_all(entries, srcs, k, dst) ==
    IF k = 0 THEN entries
    ELSE LET before == copy_all(entries, srcs, k - 1, dst)
             p == srcs[k]
         IN  [before EXCEPT ![dst][p.name] = before[p.dir][p.name]]

(***************************************************************************)
(* Values.                                                                 *)
(***************************************************************************)
NoDetails == [has |-> {}, exit_code |-> -1]

\* ScriptResult; status "None" stands for an unassigned variable.
NoResult == [status |-> "None", message |-> "", details |-> NoDetails]

\* The dict handle_exit prints.  keys is the set of keys the dict has.
NoPayload ==
    [keys |-> {}, status |-> "", error_type |-> "", message |-> "",
     captured_files |-> <<>>, details |-> NoDetails]

ErrorPayload(error_type, message, with_details) ==
    [keys |-> {"status", "error_type", "message"}
                \cup (IF with_details THEN {"details"} ELSE {}),
     status |-> "error", error_type |-> error_type, message |-> message,
     captured_files |-> <<>>, details |-> NoDetails]

ResultPayload(res, captured) ==
    [keys |-> {"status", "message", "captured_files", "details"},
     status |-> res.status, error_type |-> "", message |-> res.message,
     captured_files |-> captured, details |-> res.details]

(***************************************************************************)
(* Container output.  Log text is a sequence of characters; InvalidByte is *)
(* a byte that no UTF-8 text holds.                                        *)
(***************************************************************************)
Sig1 == \* "Could not find a version that satisfies"
    <<"C","o","u","l","d"," ","n","o","t"," ","f","i","n","d"," ","a"," ","v","e","r","s","i","o","n"," ","t","h","a","t"," ","s","a","t","i","s","f","i","e","s">>

Sig2 == \* "No matching distribution found"
    <<"N","o"," ","m","a","t","c","h","i","n","g"," ","d","i","s","t","r","i","b","u","t","i","o","n"," ","f","o","u","n","d">>

Sig3 == \* "Invalid requirement:"
    <<"I","n","v","a","l","i","d"," ","r","e","q","u","i","r","e","m","e","n","t",":">>

Sig4 == \* "is not a valid requirement."
    <<"i","s"," ","n","o","t"," ","a"," ","v","a","l","i","d"," ","r","e","q","u","i","r","e","m","e","n","t",".">>

pip_error_signatures == <<Sig1, Sig2, Sig3, Sig4>>

InvalidByte == "0xff"

Whitespace == {" ", "\n", "\t"}

\* The texts a container may log: nothing, a traceback, a signature, a
\* signature in another case or cut short, each possibly inside other text.
LogPrefixes == {<<>>, <<"\n">>, <<"E","R","R","O","R",":"," ">>}

LogSuffixes == {<<>>, <<" ","\n">>}

LogBodies ==
    {<<>>, <<"T","r","a","c","e","b","a","c","k">>, Sig1, Sig2, Sig3, Sig4}
    \cup {[s EXCEPT ![1] = "c"] : s \in {Sig1}}
    \cup {[s EXCEPT ![1] = "n"] : s \in {Sig2}}
    \cup {[s EXCEPT ![1] = "i"] : s \in {Sig3}}
    \cup {[s EXCEPT ![1] = "I"] : s \in {Sig4}}
    \cup {SubSeq(s, 1, Len(s) - 1) : s \in {Sig1, Sig2, Sig3, Sig4}}
    \cup {SubSeq(s, 2, Len(s)) : s \in {Sig1, Sig2, Sig3, Sig4}}

LogBytes ==
    {a \o b \o c : a \in LogPrefixes, b \in LogBodies, c \in LogSuffixes}
    \cup {<<"o","k",InvalidByte>>}

\* bytes.decode('utf-8') raises UnicodeDecodeError on these.
decode_fails(bytes) == \E i \in DOMAIN bytes : bytes[i] = InvalidByte

\* str.strip(): leading and trailing whitespace removed.
RECURSIVE strip(_)
strip(text) ==
    IF text = <<>> THEN text
    ELSE IF Head(text) \in Whitespace THEN strip(Tail(text))
    ELSE IF text[Len(text)] \in Whitespace THEN strip(SubSeq(text, 1, Len(text) - 1))
    ELSE text

\* sig in text (str.__contains__), scanning the start positions from i on.
RECURSIVE find_from(_, _, _)
find_from(text, sig, i) ==
    IF i + Len(sig) - 1 > Len(text) THEN FALSE
    ELSE IF SubSeq(text, i, i + Len(sig) - 1) = sig THEN TRUE
    ELSE find_from(text, sig, i + 1)

str_contains(text, sig) == find_from(text, sig, 1)

\* A classification that looks for the signatures before it looks at the
\* exit code.
classify_signature_first(code, text) ==
    LET is_pip_error ==
            \E i \in DOMAIN pip_error_signatures :
                str_contains(text, pip_error_signatures[i])
        details == [has |-> {"exit_code", "raw_logs"}, exit_code |-> code]
    IN  IF is_pip_error
        THEN [status |-> "environment_setup_failed",
              message |-> "Failed to install dependencies from requirements.txt.",
              details |-> details]
        ELSE IF code # 0
        THEN [status |-> "script_failed",
              message |-> "The user script failed with a non-zero exit code.",
              details |-> details]
        ELSE [status |-> "success", message |-> "Script executed successfully.",
              details |-> [has |-> {"raw_logs"}, exit_code |-> -1]]

\* DockerRunner.run, lines 160-183: the ScriptResult for an exit code and the
\* decoded, stripped logs.  details keeps which keys the dict has and the exit
\* code; the text under raw_logs is container_logs.
classify(code, text) ==
    IF code # 0
    THEN LET is_pip_error ==
                 \E i \in DOMAIN pip_error_signatures :
                     str_contains(text, pip_error_signatures[i])
             details == [has |-> {"exit_code", "raw_logs"}, exit_code |-> code]
         IN  IF is_pip_error
             THEN [status |-> "environment_setup_failed",
                   message |-> "Failed to install dependencies from requirements.txt.",
                   details |-> details]
             ELSE [status |-> "script_failed",
                   message |-> "The user script failed with a non-zero exit code.",
                   details |-> details]
    ELSE [status |-> "success", message |-> "Script executed successfully.",
          details |-> [has |-> {"raw_logs"}, exit_code |-> -1]]

(***************************************************************************)
(* What the user script may do to its working directory (the workspace).   *)
(***************************************************************************)
ScriptEffects ==
    {[write |-> {}, remove |-> {}, mkdir |-> {}],
     [write |-> {"output.txt"}, remove |-> {}, mkdir |-> {}],
     [write |-> {"output.txt", "a.log"}, remove |-> {}, mkdir |-> {}],
     [write |-> {"output.txt", "script.py"}, remove |-> {"requirements.txt"}, mkdir |-> {}],
     [write |-> {"data.csv"}, remove |-> {}, mkdir |-> {}],
     [write |-> {"output.txt"}, remove |-> {}, mkdir |-> {"__pycache__"}]}

apply_effect(entries, d, e) ==
    [entries EXCEPT ![d] =
        [n \in Names |->
            IF n \in e.mkdir THEN "dir"
            ELSE IF n \in e.write THEN "written"
            ELSE IF n \in e.remove THEN "absent"
            ELSE @[n]]]

\* sorted(list(S)) for a set of names
sorted(S) == SelectSeq(NameOrder, LAMBDA n : n \in S)

\* What a call of the Docker SDK may raise: a docker.errors.DockerException, or
\* an exception of another class.
DockerFaults == {"DockerException", "Exception"}

\* RunnerError subclasses carry their error_type; DockerDaemonError is the only
\* one the program raises.
is_runner_error(e) == e = "DockerDaemonError"

error_type(e) == IF e = "DockerDaemonError" THEN "docker_daemon_error" ELSE "runner_internal_error"

\* How long time.sleep(interval) may take: the interval, or much longer when
\* the process is stalled.
SleepTimes == {interval, interval + timeout}

Op(name, res) == [op |-> name, res |-> res]

\* What ls shows of directory d: whether it exists, and the names in it.
NoListing == [exists |-> FALSE, names |-> {}]

listing(d) ==
    [exists |-> d \in fs_dirs,
     names |-> IF d \in fs_dirs THEN iterdir(d) ELSE {}]

\* main's log lambda: to sys.stderr, and only in human-readable mode.
log(r, err, msgs) == IF config[r].json_output THEN err ELSE err \o msgs

(***************************************************************************)
(* handle_exit(is_json_output, status, data), ending in sys.exit.          *)
(***************************************************************************)
\* A handle_exit that exits with 0 whatever the status.
exit_code_always_zero(status) == 0

\* Line 212: exit_code = 0 if status == 'success' else 1
exit_code_of(status) == IF status = "success" THEN 0 ELSE 1

\* A handle_exit that prints the message before the JSON document.
print_message_and_json(is_json_output, to_stderr, out, message) ==
    LET shown == IF to_stderr THEN out ELSE Append(out, message)
    IN  IF is_json_output THEN Append(shown, "json") ELSE shown

\* Lines 198-205, what goes to sys.stdout: the JSON document alone, or the
\* message of a result that is neither an error nor a failure report.
print_stdout(is_json_output, to_stderr, out, message) ==
    IF is_json_output THEN Append(out, "json")
    ELSE IF to_stderr THEN out ELSE Append(out, message)

handle_exit(r, status, data) ==
    LET is_failure_report ==
            data.status \in {"script_failed", "environment_setup_failed"}
        to_stderr == status = "error" \/ is_failure_report
        raw_logs ==
            IF "details" \in data.keys /\ "raw_logs" \in data.details.has
            THEN <<"--- Container Logs ---", "raw_logs", "---">>
            ELSE <<>>
    IN  /\ stdout' =
            [stdout EXCEPT ![r] =
                print_stdout(config[r].json_output, to_stderr, @, data.message)]
        /\ stderr' =
            [stderr EXCEPT ![r] =
                IF config[r].json_output THEN @
                ELSE (IF to_stderr THEN Append(@, data.message) ELSE @) \o raw_logs]
        /\ payload' = [payload EXCEPT ![r] = data]
        /\ exit_status' = [exit_status EXCEPT ![r] = exit_code_of(status)]
        /\ results_at_exit' = [results_at_exit EXCEPT ![r] = listing("results")]
        /\ ops' = [ops EXCEPT ![r] = Append(@, Op("handle_exit", status))]
        /\ pc' = [pc EXCEPT ![r] = "exited"]

(***************************************************************************)
(* Initial states: run 1 is about to call main(); the files on disk are    *)
(* among the declared ones, ./results may exist and hold an old file.      *)
(***************************************************************************)
InitEntries(present, stale) ==
    [d \in Dirs |->
        [n \in Names |->
            IF Path(d, n) \in present THEN "source"
            ELSE IF d = "results" /\ stale /\ n = "old.txt" THEN "old"
            ELSE "absent"]]

Start(started) ==
    /\ config \in [Runs -> Configs]
    /\ config[2] = config[1]
    /\ \E present \in SUBSET Declared(config[1]), stale \in BOOLEAN :
          /\ fs_entries = InitEntries(present, stale)
          /\ fs_dirs = {"cwd"} \cup
                (IF stale \/ \E p \in present : p.dir = "results"
                 THEN {"results"} ELSE {})
    /\ fs0 = [dirs |-> fs_dirs, entries |-> fs_entries]
    /\ clock = 0
    /\ pc = [r \in Runs |-> IF r \in started THEN "start" ELSE "idle"]
    /\ temp_dir = [r \in Runs |-> "None"]
    /\ initial_files = [r \in Runs |-> {}]
    /\ start_time = [r \in Runs |-> 0]
    /\ container = [r \in Runs |-> "None"]
    /\ exit_code = [r \in Runs |-> -1]
    /\ logs_bytes = [r \in Runs |-> <<>>]
    /\ container_logs = [r \in Runs |-> <<>>]
    /\ run_result = [r \in Runs |-> NoResult]
    /\ result = [r \in Runs |-> NoResult]
    /\ captured_files = [r \in Runs |-> <<>>]
    /\ exc = [r \in Runs |-> "None"]
    /\ determined = [r \in Runs |-> [exc |-> "None", result |-> NoResult, captured_files |-> <<>>]]
    /\ observed = [r \in Runs |-> [exit_code |-> -1, status |-> "None"]]
    /\ ops = [r \in Runs |-> <<>>]
    /\ stdout = [r \in Runs |-> <<>>]
    /\ stderr = [r \in Runs |-> <<>>]
    /\ payload = [r \in Runs |-> NoPayload]
    /\ exit_status = [r \in Runs |-> -1]
    /\ results_at_exit = [r \in Runs |-> NoListing]

Init == Start({1})

(***************************************************************************)
(* parse_and_validate_args(): the three pre-flight checks, in order.       *)
(***************************************************************************)
\* A validation that takes the declared inputs as they are.
inputs_not_checked(c) == {}

\* Lines 244-254: the declared inputs that are no regular file.
bad_inputs(c) == {i \in DOMAIN c.input_paths : ~is_file(c.input_paths[i])}

ParseAndValidateArgs(r) ==
    /\ pc[r] = "start"
    /\ LET c == config[r]
           bad_input == bad_inputs(c)
       IN  IF ~is_file(c.script_path)
           THEN handle_exit(r, "error",
                    ErrorPayload("file_not_found", "Input script not found", FALSE))
           ELSE IF ~is_file(c.reqs_path)
           THEN handle_exit(r, "error",
                    ErrorPayload("file_not_found", "Requirements file not found", FALSE))
           ELSE IF bad_input # {}
           THEN handle_exit(r, "error",
                    ErrorPayload("file_not_found", "Input file not found", FALSE))
           ELSE /\ pc' = [pc EXCEPT ![r] = "enter"]
                /\ UNCHANGED <<outVars, stderr, ops>>
    /\ UNCHANGED <<fsVars, clock, config, wsVars, runVars, mainVars,
                   histVars>>

(***************************************************************************)
(* WorkspaceManager.__enter__.  An exception raised here leaves the with   *)
(* statement before its body is entered: __exit__ is not called, and the   *)
(* exception reaches main's handlers.                                      *)
(***************************************************************************)
\* An __enter__ whose exception is swallowed: the with body is entered.
enter_raised_swallowed == "with_body"

\* Where control goes when __enter__ raises: out of the with statement, past
\* its body and past __exit__, to main's handlers (lines 301-318).
enter_raised == "report"

\* Lines 63-65: reset ./results.  f names the call that faults, if any.
EnterResetResults(r) ==
    /\ pc[r] = "enter"
    /\ \E f \in {"ok", "rmtree", "mkdir"} :
          LET existed == "results" \in fs_dirs
              removed == existed /\ f # "rmtree"
              dirs1 == IF removed THEN rmtree_dirs(fs_dirs, "results") ELSE fs_dirs
          IN  /\ f = "rmtree" => existed
              /\ fs_dirs' = IF f = "ok" THEN dirs1 \cup {"results"} ELSE dirs1
              /\ fs_entries' =
                    IF removed THEN rmtree_entries(fs_entries, "results") ELSE fs_entries
              /\ ops' =
                    [ops EXCEPT ![r] =
                        @ \o (IF existed
                              THEN <<Op("rmtree_results", IF removed THEN "ok" ELSE "OSError")>>
                              ELSE <<>>)
                          \o (IF f = "rmtree" THEN <<>>
                              ELSE <<Op("mkdir_results", IF f = "ok" THEN "ok" ELSE "OSError")>>)]
              /\ exc' = [exc EXCEPT ![r] = IF f = "ok" THEN @ ELSE "OSError"]
              /\ pc' = [pc EXCEPT ![r] = IF f = "ok" THEN "enter_mkdtemp" ELSE enter_raised]
    /\ UNCHANGED <<clock, config, wsVars, runVars, result, captured_files,
                   histVars, outVars, stderr>>

\* Lines 68-69: tempfile.mkdtemp().
EnterMkdtemp(r) ==
    /\ pc[r] = "enter_mkdtemp"
    /\ \E f \in {"ok", "OSError"} :
          IF f = "ok"
          THEN /\ TempDirs \ fs_dirs # {}
               /\ LET d == mkdtemp(fs_dirs)
                  IN  /\ fs_dirs' = fs_dirs \cup {d}
                      /\ fs_entries' = [fs_entries EXCEPT ![d] = EmptyDir]
                      /\ temp_dir' = [temp_dir EXCEPT ![r] = d]
               /\ ops' = [ops EXCEPT ![r] = Append(@, Op("mkdtemp", "ok"))]
               /\ pc' = [pc EXCEPT ![r] = "enter_copy"]
               /\ UNCHANGED exc
          ELSE /\ ops' = [ops EXCEPT ![r] = Append(@, Op("mkdtemp", "OSError"))]
               /\ exc' = [exc EXCEPT ![r] = "OSError"]
               /\ pc' = [pc EXCEPT ![r] = enter_raised]
               /\ UNCHANGED <<fsVars, temp_dir>>
    /\ UNCHANGED <<clock, config, initial_files, start_time, runVars, result,
                   captured_files, histVars, outVars, stderr>>

\* The paths __enter__ copies, in the order it copies them.
copy_sources(c) == <<c.script_path, c.reqs_path>> \o c.input_paths

\* Lines 70-77: the copies and the baseline snapshot.  k copies succeed; a copy
\* whose source is no longer a file fails, and any copy may fail (OSError).
EnterCopy(r) ==
    /\ pc[r] = "enter_copy"
    /\ LET srcs == copy_sources(config[r])
           n == Len(srcs)
           d == temp_dir[r]
       IN  \E k \in 0..n :
              /\ \A i \in 1..k : is_file(srcs[i])
              /\ fs_entries' = copy_all(fs_entries, srcs, k, d)
              /\ IF k = n
                 THEN /\ initial_files' = [initial_files EXCEPT ![r] = {m \in Names : fs_entries'[d][m] # "absent"}]
                      /\ ops' = [ops EXCEPT ![r] = @ \o [i \in 1..n |-> Op("copy", "ok")] \o <<Op("snapshot", "ok")>>]
                      /\ pc' = [pc EXCEPT ![r] = "with_body"]
                      /\ UNCHANGED exc
                 ELSE /\ ops' = [ops EXCEPT ![r] = @ \o [i \in 1..k |-> Op("copy", "ok")] \o <<Op("copy", "OSError")>>]
                      /\ exc' = [exc EXCEPT ![r] = "OSError"]
                      /\ pc' = [pc EXCEPT ![r] = enter_raised]
                      /\ UNCHANGED initial_files
    /\ UNCHANGED <<fs_dirs, clock, config, temp_dir, start_time, runVars, result,
                   captured_files, histVars, outVars, stderr>>

(***************************************************************************)
(* The body of main's with statement: lines 278-287.                       *)
(***************************************************************************)
\* main lines 278-282 and DockerRunner.__init__: docker.from_env().
DockerRunnerInit(r) ==
    /\ pc[r] = "with_body"
    /\ stderr' =
          [stderr EXCEPT ![r] =
              log(r, @, <<"Preparing clean output directory",
                          "Temporary context created", "Initial context contains">>)]
    /\ \E o \in {"ok"} \cup DockerFaults :
          /\ ops' = [ops EXCEPT ![r] = Append(@, Op("connect", o))]
          /\ exc' =
                [exc EXCEPT ![r] =
                    IF o = "ok" THEN @
                    ELSE IF o = "DockerException" THEN "DockerDaemonError" ELSE o]
          /\ pc' = [pc EXCEPT ![r] = IF o = "ok" THEN "run_pull" ELSE "exit"]
    /\ UNCHANGED <<fsVars, clock, config, wsVars, runVars, result,
                   captured_files, histVars, outVars>>

\* DockerRunner.run, lines 184-186: what the try statement raises for an
\* exception e of its body.
run_except(e) == IF e = "DockerException" THEN "DockerDaemonError" ELSE e

\* A call in the try body raised e: the handler, then the finally clause.
RunFault(r, name, e) ==
    /\ ops' = [ops EXCEPT ![r] = Append(@, Op(name, e))]
    /\ exc' = [exc EXCEPT ![r] = run_except(e)]
    /\ pc' = [pc EXCEPT ![r] = "run_finally"]

\* Lines 138-139: client.images.pull
RunPull(r) ==
    /\ pc[r] = "run_pull"
    /\ stderr' = [stderr EXCEPT ![r] = log(r, @, <<"Pulling image">>)]
    /\ \E o \in {"ok"} \cup DockerFaults :
          IF o = "ok"
          THEN /\ ops' = [ops EXCEPT ![r] = Append(@, Op("pull", "ok"))]
               /\ pc' = [pc EXCEPT ![r] = "run_create"]
               /\ UNCHANGED exc
          ELSE RunFault(r, "pull", o)
    /\ UNCHANGED <<fsVars, clock, config, wsVars, runVars, result,
                   captured_files, histVars, outVars>>

\* Lines 141-147: client.containers.create
RunCreate(r) ==
    /\ pc[r] = "run_create"
    /\ stderr' = [stderr EXCEPT ![r] = log(r, @, <<"Creating container">>)]
    /\ \E o \in {"ok"} \cup DockerFaults :
          IF o = "ok"
          THEN /\ ops' = [ops EXCEPT ![r] = Append(@, Op("create", "ok"))]
               /\ container' = [container EXCEPT ![r] = "container"]
               /\ pc' = [pc EXCEPT ![r] = "run_start"]
               /\ UNCHANGED exc
          ELSE RunFault(r, "create", o) /\ UNCHANGED container
    /\ UNCHANGED <<fsVars, clock, config, wsVars, exit_code, logs_bytes,
                   container_logs, run_result, result, captured_files, histVars,
                   outVars>>

\* Lines 149-150: container.start
RunStart(r) ==
    /\ pc[r] = "run_start"
    /\ stderr' = [stderr EXCEPT ![r] = log(r, @, <<"Starting container">>)]
    /\ \E o \in {"ok"} \cup DockerFaults :
          IF o = "ok"
          THEN /\ ops' = [ops EXCEPT ![r] = Append(@, Op("start", "ok"))]
               /\ pc' = [pc EXCEPT ![r] = "run_wait"]
               /\ UNCHANGED exc
          ELSE RunFault(r, "start", o)
    /\ UNCHANGED <<fsVars, clock, config, wsVars, runVars, result,
                   captured_files, histVars, outVars>>

\* Lines 152-154: container.wait.  When it returns the user script has run in
\* the mounted workspace and the container has exited with some code.
RunWait(r) ==
    /\ pc[r] = "run_wait"
    /\ \E o \in {"ok"} \cup DockerFaults :
          IF o = "ok"
          THEN /\ \E code \in 0..MaxExitCode, e \in ScriptEffects :
                     /\ exit_code' = [exit_code EXCEPT ![r] = code]
                     /\ observed' = [observed EXCEPT ![r].exit_code = code]
                     /\ fs_entries' = apply_effect(fs_entries, temp_dir[r], e)
               /\ ops' = [ops EXCEPT ![r] = Append(@, Op("wait", "ok"))]
               /\ stderr' = [stderr EXCEPT ![r] = log(r, @, <<"Container finished">>)]
               /\ pc' = [pc EXCEPT ![r] = "run_logs"]
               /\ UNCHANGED exc
          ELSE RunFault(r, "wait", o) /\ UNCHANGED <<exit_code, observed, fs_entries, stderr>>
    /\ UNCHANGED <<fs_dirs, clock, config, wsVars, container, logs_bytes,
                   container_logs, run_result, result, captured_files, fs0, determined,
                   outVars>>

\* Lines 156-183: container.logs, decode and strip, and the classification.
RunLogs(r) ==
    /\ pc[r] = "run_logs"
    /\ \E o \in {"ok"} \cup DockerFaults :
          IF o = "ok"
          THEN \E bytes \in LogBytes :
                  /\ logs_bytes' = [logs_bytes EXCEPT ![r] = bytes]
                  /\ IF decode_fails(bytes)
                     THEN /\ ops' = [ops EXCEPT ![r] = @ \o <<Op("logs", "ok"), Op("decode", "Exception")>>]
                          /\ exc' = [exc EXCEPT ![r] = run_except("Exception")]
                          /\ UNCHANGED <<container_logs, run_result, observed, stderr>>
                     ELSE /\ container_logs' = [container_logs EXCEPT ![r] = strip(bytes)]
                          /\ run_result' =
                                [run_result EXCEPT ![r] = classify(exit_code[r], strip(bytes))]
                          /\ observed' = [observed EXCEPT ![r].status = run_result'[r].status]
                          /\ ops' = [ops EXCEPT ![r] = Append(@, Op("logs", "ok"))]
                          /\ stderr' = [stderr EXCEPT ![r] = log(r, @, <<"Container logs captured">>)]
                          /\ UNCHANGED exc
                  /\ pc' = [pc EXCEPT ![r] = "run_finally"]
          ELSE RunFault(r, "logs", o)
               /\ UNCHANGED <<logs_bytes, container_logs, run_result, observed, stderr>>
    /\ UNCHANGED <<fsVars, clock, config, wsVars, container, exit_code, result,
                   captured_files, fs0, determined, outVars>>

\* A cleanup that is skipped when an exception is in flight.
has_container_and_no_exception(r) == container[r] # "None" /\ exc[r] = "None"

\* A finally clause that removes without looking at container.
container_unchecked(r) == TRUE

\* Line 188: if container
has_container(r) == container[r] # "None"

\* Lines 187-190: the finally clause, and how run() is left.  An exception of
\* container.remove() replaces the return value or the exception in flight.
RunFinally(r) ==
    /\ pc[r] = "run_finally"
    /\ \E o \in {"ok"} \cup DockerFaults :
          /\ ~has_container(r) => o = "ok"
          /\ ops' =
                [ops EXCEPT ![r] =
                    IF has_container(r) THEN Append(@, Op("remove", o)) ELSE @]
          /\ stderr' =
                [stderr EXCEPT ![r] =
                    IF has_container(r) THEN log(r, @, <<"Removing container">>) ELSE @]
          /\ exc' = [exc EXCEPT ![r] = IF o = "ok" THEN @ ELSE o]
          /\ result' = [result EXCEPT ![r] = IF exc'[r] = "None" THEN run_result[r] ELSE @]
          /\ pc' = [pc EXCEPT ![r] = IF exc'[r] = "None" THEN "capture" ELSE "exit"]
    /\ container' = [container EXCEPT ![r] = "None"]
    /\ exit_code' = [exit_code EXCEPT ![r] = -1]
    /\ logs_bytes' = [logs_bytes EXCEPT ![r] = <<>>]
    /\ container_logs' = [container_logs EXCEPT ![r] = <<>>]
    /\ run_result' = [run_result EXCEPT ![r] = NoResult]
    /\ UNCHANGED <<fsVars, clock, config, wsVars, captured_files, histVars,
                   outVars>>

\* The entries after shutil.copy has copied names[1..k] from directory src
\* into directory dst.
RECURSIVE copy_names(_, _, _, _, _)
copy_names(entries, names, k, src, dst) ==
    IF k = 0 THEN entries
    ELSE [copy_names(entries, names, k - 1, src, dst)
             EXCEPT ![dst][names[k]] = entries[src][names[k]]]

\* A capture that takes every name in the workspace as new.
new_files_without_baseline(r) == iterdir(temp_dir[r])

\* WorkspaceManager.capture_outputs, lines 99-100: the names it finds new.
new_files(r) == iterdir(temp_dir[r]) \ initial_files[r]

\* main lines 285-287 and WorkspaceManager.capture_outputs.  k copies succeed;
\* copying a directory fails, and any copy may fail (OSError).
CaptureOutputs(r) ==
    /\ pc[r] = "capture"
    /\ LET captured == sorted(new_files(r))
           n == Len(captured)
           d == temp_dir[r]
       IN  \E k \in 0..n :
              /\ \A i \in 1..k : fs_entries[d][captured[i]] \in FileTags
              /\ fs_entries' =
                    IF "results" \in fs_dirs
                    THEN copy_names(fs_entries, captured, k, d, "results")
                    ELSE fs_entries
              /\ IF k = n
                 THEN /\ captured_files' = [captured_files EXCEPT ![r] = captured]
                      /\ ops' = [ops EXCEPT ![r] = Append(@, Op("capture_outputs", "ok"))]
                      /\ stderr' = [stderr EXCEPT ![r] = log(r, @, <<"Found new file(s) to capture", "All new files copied">>)]
                      /\ UNCHANGED exc
                 ELSE /\ ops' = [ops EXCEPT ![r] = Append(@, Op("capture_outputs", "OSError"))]
                      /\ exc' = [exc EXCEPT ![r] = "OSError"]
                      /\ UNCHANGED <<captured_files, stderr>>
    /\ pc' = [pc EXCEPT ![r] = "exit"]
    /\ UNCHANGED <<fs_dirs, clock, config, wsVars, runVars, result, histVars,
                   outVars>>

(***************************************************************************)
(* WorkspaceManager.__exit__.  It returns None: an exception in flight     *)
(* goes on to main's handlers once it is done.                             *)
(***************************************************************************)
\* Lines 81-86
ExitBegin(r) ==
    /\ pc[r] = "exit"
    /\ determined' =
          [determined EXCEPT ![r] =
              [exc |-> exc[r], result |-> result[r],
               captured_files |-> captured_files[r]]]
    /\ IF temp_dir[r] = "None"
       THEN pc' = [pc EXCEPT ![r] = "report"] /\ UNCHANGED start_time
       ELSE /\ start_time' = [start_time EXCEPT ![r] = clock]
            /\ pc' = [pc EXCEPT ![r] = "exit_loop"]
    /\ UNCHANGED <<fsVars, fs0, observed, clock, config, temp_dir, initial_files,
                   runVars, mainVars, ops, outVars, stderr>>

\* A teardown that raises the OSError when it gives up.
give_up_raising(e) == "OSError"

\* Lines 92-94: giving up prints and breaks; the exception in flight, if any,
\* stays in flight.
give_up(e) == e

\* A loop that gives up at the first failure.
timed_out_at_once(now, start) == TRUE

\* Line 92: time.time() - start_time > timeout
timed_out(now, start) == now - start > timeout

\* Lines 87-95, one turn of the loop: rmtree succeeds and the loop ends, or it
\* raises OSError and the loop gives up or sleeps.
ExitRmtree(r) ==
    /\ pc[r] = "exit_loop"
    /\ \E o \in {"ok", "OSError"} :
          /\ ops' = [ops EXCEPT ![r] = Append(@, Op("rmtree_temp", o))]
          /\ IF o = "ok"
             THEN /\ fs_dirs' = rmtree_dirs(fs_dirs, temp_dir[r])
                  /\ fs_entries' = rmtree_entries(fs_entries, temp_dir[r])
                  /\ pc' = [pc EXCEPT ![r] = "report"]
                  /\ UNCHANGED <<clock, stderr, exc>>
             ELSE IF timed_out(clock, start_time[r])
             THEN /\ stderr' = [stderr EXCEPT ![r] = Append(@, "FATAL: Failed to clean up temp dir")]
                  /\ exc' = [exc EXCEPT ![r] = give_up(@)]
                  /\ pc' = [pc EXCEPT ![r] = "report"]
                  /\ UNCHANGED <<fsVars, clock>>
             ELSE /\ \E s \in SleepTimes : clock' = clock + s
                  /\ UNCHANGED <<fsVars, pc, stderr, exc>>
    /\ UNCHANGED <<config, wsVars, runVars, result, captured_files, histVars, outVars>>

(***************************************************************************)
(* main after the with statement: lines 289-299, or one of the handlers    *)
(* of lines 301-318.                                                       *)
(***************************************************************************)
MainReport(r) ==
    /\ pc[r] = "report"
    /\ IF exc[r] = "None"
       THEN handle_exit(r, "success", ResultPayload(result[r], captured_files[r]))
       ELSE IF is_runner_error(exc[r])
       THEN handle_exit(r, "error",
                ErrorPayload(error_type(exc[r]), "A Docker error occurred", TRUE))
       ELSE handle_exit(r, "error",
                ErrorPayload("runner_internal_error",
                             "An unexpected internal error occurred in the runner", TRUE))
    /\ UNCHANGED <<fsVars, clock, config, wsVars, runVars, mainVars, histVars>>

Next ==
    \E r \in Runs :
        \/ ParseAndValidateArgs(r)
        \/ EnterResetResults(r)
        \/ EnterMkdtemp(r)
        \/ EnterCopy(r)
        \/ DockerRunnerInit(r)
        \/ RunPull(r)
        \/ RunCreate(r)
        \/ RunStart(r)
        \/ RunWait(r)
        \/ RunLogs(r)
        \/ RunFinally(r)
        \/ CaptureOutputs(r)
        \/ ExitBegin(r)
        \/ ExitRmtree(r)
        \/ MainReport(r)

Spec == Init /\ [][Next]_vars

(***************************************************************************)
(* Two invocations started in the same working directory with the same     *)
(* arguments, their steps interleaved.  The script and the manifest are in *)
(* the working directory, ./results holds a file of an earlier run, and    *)
(* nothing but a copy of __enter__ fails: no other call of the file system *)
(* and no call of the Docker SDK raises, the script exits with 0 and       *)
(* prints nothing.                                                         *)
(***************************************************************************)
InitConc ==
    /\ Start(Runs)
    /\ config[1] = [script_path |-> Path("cwd", "script.py"),
                    reqs_path |-> Path("cwd", "requirements.txt"),
                    input_paths |-> <<>>, json_output |-> TRUE]
    /\ \A p \in Declared(config[1]) : is_file(p)
    /\ fs_entries["results"]["old.txt"] = "old"

Calm ==
    \A q \in Runs :
        /\ \A i \in DOMAIN ops[q] :
              ops[q][i].op \notin {"copy", "handle_exit"} => ops[q][i].res = "ok"
        /\ exit_code[q] \in {-1, 0}
        /\ logs_bytes[q] = <<>>

NextConc ==
    \E r \in Runs :
        \/ ParseAndValidateArgs(r) /\ Calm'
        \/ EnterResetResults(r) /\ Calm'
        \/ EnterMkdtemp(r) /\ Calm'
        \/ EnterCopy(r) /\ Calm'
        \/ DockerRunnerInit(r) /\ Calm'
        \/ RunPull(r) /\ Calm'
        \/ RunCreate(r) /\ Calm'
        \/ RunStart(r) /\ Calm'
        \/ RunWait(r) /\ Calm'
        \/ RunLogs(r) /\ Calm'
        \/ RunFinally(r) /\ Calm'
        \/ CaptureOutputs(r) /\ Calm'
        \/ ExitBegin(r) /\ Calm'
        \/ ExitRmtree(r) /\ Calm'
        \/ MainReport(r) /\ Calm'

SpecConc == InitConc /\ [][NextConc]_vars

(***************************************************************************)
(* Vocabulary of the properties.                                           *)
(***************************************************************************)
Classified == {"success", "environment_setup_failed", "script_failed"}

ScriptFailures == {"environment_setup_failed", "script_failed"}

\* The calls named name that invocation r has made, by position in ops[r].
Calls(r, name) == {i \in DOMAIN ops[r] : ops[r][i].op = name}

\* r made a call named name that ended with res.
Did(r, name, res) == \E i \in Calls(r, name) : ops[r][i].res = res

\* r has left DockerRunner.run (by return or by exception), or never entered it.
RunLeft(r) == pc[r] \in {"capture", "exit", "exit_loop", "report", "exited"}

\* sig occurs in text as a contiguous, case-sensitive substring.
Occurs(sig, text) ==
    \E i \in 1..Len(text) :
        /\ i + Len(sig) - 1 <= Len(text)
        /\ \A j \in 1..Len(sig) : text[i + j - 1] = sig[j]

(***************************************************************************)
(* C1 (channel separation).  Whenever the container was created, started,  *)
(* waited on and its logs retrieved and decoded without a fault and it     *)
(* exited with a nonzero code, and output capture itself did not fault, the*)
(* finished run has reported environment_setup_failed or script_failed,    *)
(* with run() having returned a ScriptResult, capture_outputs and teardown *)
(* having run.  The code violates it: container.remove() may raise in the  *)
(* finally clause of run().                                                *)
(***************************************************************************)
C1_ChannelSeparation ==
    \A r \in Runs :
        (/\ pc[r] = "exited"
         /\ Did(r, "create", "ok") /\ Did(r, "start", "ok")
         /\ Did(r, "wait", "ok") /\ Did(r, "logs", "ok")
         /\ Calls(r, "decode") = {}
         /\ observed[r].exit_code > 0
         /\ ~Did(r, "capture_outputs", "OSError"))
        => /\ result[r].status \in ScriptFailures
           /\ Did(r, "capture_outputs", "ok")
           /\ Calls(r, "rmtree_temp") # {}
           /\ payload[r].status \in ScriptFailures
           /\ "error_type" \notin payload[r].keys

(***************************************************************************)
(* C2 (teardown on every exit path).  A finished run that created its      *)
(* temporary directory has tried to remove it at least once.  The code     *)
(* violates it: an exception of __enter__ after mkdtemp() skips __exit__.  *)
(***************************************************************************)
C2_TeardownOnEveryPath ==
    \A r \in Runs :
        (pc[r] = "exited" /\ Did(r, "mkdtemp", "ok")) => Calls(r, "rmtree_temp") # {}

(***************************************************************************)
(* C3 (a fault of container removal does not escalate).  Whenever wait and *)
(* log retrieval completed and classified a status, the finished run has   *)
(* reported that status, after capturing outputs, with the exit status of  *)
(* a run whose removal succeeded (0), also when container.remove() raised. *)
(* The code violates it.                                                   *)
(***************************************************************************)
C3_RemovalFaultDoesNotEscalate ==
    \A r \in Runs :
        (/\ pc[r] = "exited"
         /\ observed[r].status \in Classified
         /\ \E i \in Calls(r, "remove") : ops[r][i].res # "ok")
        => /\ payload[r].status = observed[r].status
           /\ Calls(r, "capture_outputs") # {}
           /\ exit_status[r] = 0

(***************************************************************************)
(* C4 (container removal exactly once).  A run creates at most one         *)
(* container; it never tries to remove a container more often than create  *)
(* returned one; and once it has left DockerRunner.run it has tried to     *)
(* remove the container exactly once if create returned one, and not at    *)
(* all otherwise, whatever start, wait or the log retrieval did.           *)
(***************************************************************************)
C4_RemoveExactlyOnce ==
    \A r \in Runs :
        LET created == {i \in Calls(r, "create") : ops[r][i].res = "ok"}
            removals == Calls(r, "remove")
        IN  /\ Cardinality(Calls(r, "create")) <= 1
            /\ Cardinality(removals) <= Cardinality(created)
            /\ \A i \in removals : \E j \in created : j < i
            /\ RunLeft(r) => Cardinality(removals) = Cardinality(created)

\* wait() raised an exception that is no DockerException, and run() was left
\* with the one removal made.
C4_Witness ==
    \E r \in Runs :
        /\ RunLeft(r)
        /\ Did(r, "wait", "Exception")
        /\ Cardinality(Calls(r, "remove")) = 1

(***************************************************************************)
(* C5 (classification is a total function of exit code and log text).      *)
(* Once the logs are decoded, the ScriptResult of run() has status success *)
(* if the exit code is 0, whatever the logs hold; environment_setup_failed *)
(* if it is not 0 and one of the four signatures occurs in the logs; and   *)
(* script_failed if it is not 0 and none occurs.                           *)
(***************************************************************************)
C5_ClassificationTotal ==
    \A r \in Runs :
        (pc[r] = "run_finally" /\ Did(r, "logs", "ok") /\ Calls(r, "decode") = {})
        => LET signature ==
                   \E k \in 1..4 : Occurs(pip_error_signatures[k], logs_bytes[r])
           IN  /\ run_result[r].status \in Classified
               /\ exit_code[r] = 0 => run_result[r].status = "success"
               /\ (exit_code[r] # 0 /\ signature)
                      => run_result[r].status = "environment_setup_failed"
               /\ (exit_code[r] # 0 /\ ~signature)
                      => run_result[r].status = "script_failed"

\* Exit code 0 with an installer-failure signature in the logs.
C5_Witness ==
    \E r \in Runs :
        /\ pc[r] = "run_finally"
        /\ exit_code[r] = 0
        /\ Occurs(Sig2, logs_bytes[r])
        /\ run_result[r].status = "success"

(***************************************************************************)
(* C6 (captured_files).  When capture_outputs has returned, captured_files *)
(* is the strictly ascending list of exactly the names that the workspace  *)
(* holds and the provisioning did not put there (the base names of the     *)
(* declared files): no baseline name is in it, overwritten or deleted; and *)
(* a run that reports a classified status reports that list.               *)
(***************************************************************************)
Baseline(r) == {p.name : p \in Declared(config[r])}

Ascending(names) ==
    \A i, j \in DOMAIN names : i < j => Rank(names[i]) < Rank(names[j])

C6_CapturedFilesAreTheNewNames ==
    \A r \in Runs :
        /\ (pc[r] = "exit" /\ Did(r, "capture_outputs", "ok"))
           => /\ Ascending(captured_files[r])
              /\ Range(captured_files[r]) = iterdir(temp_dir[r]) \ Baseline(r)
        /\ (pc[r] = "exited" /\ payload[r].status \in Classified)
           => /\ "captured_files" \in payload[r].keys
              /\ payload[r].captured_files = captured_files[r]
              /\ Did(r, "capture_outputs", "ok")

\* The script overwrote script.py, deleted requirements.txt and wrote output.txt.
C6_Witness ==
    \E r \in Runs :
        /\ pc[r] = "exit" /\ Did(r, "capture_outputs", "ok")
        /\ fs_entries[temp_dir[r]]["script.py"] = "written"
        /\ fs_entries[temp_dir[r]]["requirements.txt"] = "absent"
        /\ captured_files[r] = <<"output.txt">>

(***************************************************************************)
(* C7 (pre-flight validation has no side effects).  If a declared path was *)
(* no regular file when the run began, the run does nothing but report     *)
(* file_not_found and exit with status 1: the file system stays as it was, *)
(* no temporary directory is made and no call is made to the container     *)
(* runtime.                                                                *)
(***************************************************************************)
WasFile(p) == p.dir \in fs0.dirs /\ fs0.entries[p.dir][p.name] \in FileTags

C7_ValidationHasNoSideEffects ==
    \A r \in Runs :
        (pc[r] # "idle" /\ \E p \in Declared(config[r]) : ~WasFile(p))
        => /\ pc[r] \in {"start", "exited"}
           /\ fs_dirs = fs0.dirs /\ fs_entries = fs0.entries
           /\ temp_dir[r] = "None"
           /\ \A i \in DOMAIN ops[r] : ops[r][i].op = "handle_exit"
           /\ pc[r] = "exited"
              => /\ payload[r].status = "error"
                 /\ payload[r].error_type = "file_not_found"
                 /\ exit_status[r] = 1

\* Script and manifest exist, a declared input does not, ./results holds an
\* old file, and the run has exited.
C7_Witness ==
    \E r \in Runs :
        /\ pc[r] = "exited"
        /\ WasFile(config[r].script_path) /\ WasFile(config[r].reqs_path)
        /\ \E i \in DOMAIN config[r].input_paths : ~WasFile(config[r].input_paths[i])
        /\ fs_entries["results"]["old.txt"] = "old"
        /\ payload[r].error_type = "file_not_found"

(***************************************************************************)
(* C8 (exit status contract).  A run that reports status error reports one *)
(* of file_not_found, docker_daemon_error, runner_internal_error and exits *)
(* with 1; a run that exits with 0 reports a classified status; and every  *)
(* run that reports environment_setup_failed or script_failed exits with   *)
(* one fixed code, which is 0, whatever the in-container exit code.        *)
(***************************************************************************)
C8_ExitStatusContract ==
    \A r \in Runs :
        pc[r] = "exited"
        => /\ exit_status[r] \in {0, 1}
           /\ payload[r].status \in Classified \cup {"error"}
           /\ payload[r].status = "error"
              => /\ exit_status[r] = 1
                 /\ payload[r].error_type \in
                       {"file_not_found", "docker_daemon_error", "runner_internal_error"}
           /\ exit_status[r] = 0 => payload[r].status \in Classified
           /\ payload[r].status \in ScriptFailures => exit_status[r] = 0

\* script_failed after in-container exit code 2.
C8_Witness ==
    \E r \in Runs :
        /\ pc[r] = "exited"
        /\ payload[r].status = "script_failed"
        /\ payload[r].details.exit_code = 2
        /\ exit_status[r] = 0

(***************************************************************************)
(* C9 (a persistent teardown failure does not change the outcome).  When   *)
(* every attempt to remove the temporary directory failed and __exit__     *)
(* gave up, the run reports what was determined when __exit__ began: with  *)
(* no exception in flight the status, message and captured_files of the    *)
(* result and exit status 0; with an exception in flight that exception's  *)
(* error report and exit status 1.                                         *)
(***************************************************************************)
GaveUp(r) ==
    /\ Calls(r, "rmtree_temp") # {}
    /\ \A i \in Calls(r, "rmtree_temp") : ops[r][i].res = "OSError"

C9_TeardownFailureKeepsOutcome ==
    \A r \in Runs :
        (pc[r] = "exited" /\ GaveUp(r))
        => LET d == determined[r]
           IN  IF d.exc = "None"
               THEN /\ d.result.status \in Classified
                    /\ payload[r].status = d.result.status
                    /\ payload[r].message = d.result.message
                    /\ "captured_files" \in payload[r].keys
                    /\ payload[r].captured_files = d.captured_files
                    /\ exit_status[r] = 0
               ELSE /\ payload[r].status = "error"
                    /\ payload[r].error_type =
                          (IF d.exc = "DockerDaemonError" THEN "docker_daemon_error"
                           ELSE "runner_internal_error")
                    /\ "captured_files" \notin payload[r].keys
                    /\ exit_status[r] = 1

\* __exit__ gave up past the timeout with a DockerDaemonError in flight.
C9_Witness ==
    \E r \in Runs :
        /\ pc[r] = "exited" /\ GaveUp(r)
        /\ clock - start_time[r] > timeout
        /\ determined[r].exc = "DockerDaemonError"
        /\ payload[r].error_type = "docker_daemon_error"

(***************************************************************************)
(* C10 (infrastructure abort).  A finished run in which connect, pull,     *)
(* create, start, wait or logs raised a DockerException has reported error *)
(* with docker_daemon_error, without calling capture_outputs and without a *)
(* captured_files list, and has tried to remove its temporary directory;   *)
(* a finished run in which all six returned has not reported               *)
(* docker_daemon_error.  The code violates the first part: an exception of *)
(* container.remove() replaces the DockerDaemonError (see C3).             *)
(***************************************************************************)
DaemonCalls == {"connect", "pull", "create", "start", "wait", "logs"}

C10_InfrastructureAbort ==
    \A r \in Runs :
        pc[r] = "exited"
        => /\ (\E n \in DaemonCalls : Did(r, n, "DockerException"))
              => /\ payload[r].status = "error"
                 /\ payload[r].error_type = "docker_daemon_error"
                 /\ Calls(r, "capture_outputs") = {}
                 /\ "captured_files" \notin payload[r].keys
                 /\ Calls(r, "rmtree_temp") # {}
           /\ (\A n \in DaemonCalls : Did(r, n, "ok"))
              => payload[r].error_type # "docker_daemon_error"

(***************************************************************************)
(* C11 (filesystem faults are runner errors).  Once a call of provisioning *)
(* has raised (the reset of ./results, mkdtemp, or a copy into the         *)
(* workspace, also of a declared file that is gone by then), the run makes *)
(* no call to the Docker daemon; a finished run in which provisioning or   *)
(* output capture raised has reported status error with error_type         *)
(* runner_internal_error and a nonzero exit status.                        *)
(***************************************************************************)
ProvisioningFaults ==
    {Op("rmtree_results", "OSError"), Op("mkdir_results", "OSError"),
     Op("mkdtemp", "OSError"), Op("copy", "OSError")}

FilesystemFaults == ProvisioningFaults \cup {Op("capture_outputs", "OSError")}

ContainerOps == {"connect", "pull", "create", "start", "wait", "logs", "remove"}

C11_FilesystemFaultIsAnError ==
    \A r \in Runs :
        \A i \in DOMAIN ops[r] :
            /\ ops[r][i] \in ProvisioningFaults
               => \A j \in DOMAIN ops[r] : ops[r][j].op \notin ContainerOps
            /\ (ops[r][i] \in FilesystemFaults /\ pc[r] = "exited")
               => /\ payload[r].status = "error"
                  /\ payload[r].status \notin Classified
                  /\ "error_type" \in payload[r].keys
                  /\ payload[r].error_type = "runner_internal_error"
                  /\ exit_status[r] # 0

\* A declared input that validation saw in ./results is gone when __enter__
\* copies it, and the finished run has reported the error.
C11_Witness ==
    \E r \in Runs :
        /\ pc[r] = "exited"
        /\ Did(r, "copy", "OSError")
        /\ \E p \in Declared(config[r]) : WasFile(p) /\ ~is_file(p)
        /\ payload[r].error_type = "runner_internal_error"

(***************************************************************************)
(* C12 (two invocations in one working directory).  The temporary          *)
(* directories of the two invocations are distinct for as long as both     *)
(* hold one (from the return of mkdtemp to the removal of the directory),  *)
(* while ./results is shared: an invocation may report a captured file     *)
(* that the reset of the other has removed from ./results, with ./results  *)
(* holding at that time a file it did not capture.                         *)
(***************************************************************************)
HoldsTempDir(r) == Did(r, "mkdtemp", "ok") /\ ~Did(r, "rmtree_temp", "ok")

C12_TempDirsDistinct ==
    \A r1, r2 \in Runs :
        (r1 # r2 /\ HoldsTempDir(r1) /\ HoldsTempDir(r2))
        => /\ temp_dir[r1] # temp_dir[r2]
           /\ {temp_dir[r1], temp_dir[r2]} \subseteq fs_dirs

\* r has reported a classified status naming a captured file that was not in
\* ./results when it reported, the other invocation having reset ./results
\* after r began; ./results held a file r did not capture.
C12_Witness ==
    \E r, q \in Runs :
        /\ r # q
        /\ pc[r] = "exited"
        /\ payload[r].status \in Classified
        /\ Did(q, "rmtree_results", "ok")
        /\ \E n \in Range(payload[r].captured_files) : n \notin results_at_exit[r].names
        /\ \E n \in results_at_exit[r].names : n \notin Range(payload[r].captured_files)

(***************************************************************************)
(* C13 (one payload on stdout).  handle_exit is entered at most once by an *)
(* invocation, and exactly once, as its last call, by one that has         *)
(* terminated.  In JSON mode sys.stdout holds nothing until then and the   *)
(* one JSON document after; in human-readable mode it holds at most the    *)
(* message handle_exit was given; no progress line is on sys.stdout in     *)
(* either mode.                                                            *)
(***************************************************************************)
ProgressLines ==
    {"Preparing clean output directory", "Temporary context created",
     "Initial context contains", "Pulling image", "Creating container",
     "Starting container", "Container finished", "Container logs captured",
     "Removing container", "Found new file(s) to capture", "All new files copied"}

C13_OnePayloadOnStdout ==
    \A r \in Runs :
        /\ Calls(r, "handle_exit") = (IF pc[r] = "exited" THEN {Len(ops[r])} ELSE {})
        /\ config[r].json_output
           => stdout[r] = (IF pc[r] = "exited" THEN <<"json">> ELSE <<>>)
        /\ ~config[r].json_output
           => stdout[r] \in {<<>>, <<payload[r].message>>}
        /\ \A i \in DOMAIN stdout[r] : stdout[r][i] \notin ProgressLines

\* A JSON-mode invocation that went through every stage, lost its result to
\* a fault of container.remove(), and has terminated with one document on
\* sys.stdout.
C13_Witness ==
    \E r \in Runs :
        /\ pc[r] = "exited"
        /\ config[r].json_output
        /\ Did(r, "logs", "ok") /\ Did(r, "remove", "DockerException")
        /\ Calls(r, "rmtree_temp") # {}
        /\ stdout[r] = <<"json">>

(***************************************************************************)
(* C14 (container protocol order).  The calls pull, create, start, wait,   *)
(* logs, remove occur in that order, each at most once.  create follows a  *)
(* pull that returned, start a create that returned, wait a start that     *)
(* returned, logs a wait that returned.  After a call of the protocol that *)
(* raised, or a decoding of the logs that raised, the only later call is   *)
(* remove.  remove follows a create that returned a container, and either  *)
(* a wait that returned or a fault.                                        *)
(***************************************************************************)
Protocol == <<"pull", "create", "start", "wait", "logs", "remove">>

ProtocolOps == Range(Protocol) \cup {"decode"}

\* The place of a call in the protocol; decode stands between logs and remove.
Stage ==
    [name \in ProtocolOps |->
        IF name = "decode" THEN 11
        ELSE 2 * (CHOOSE k \in DOMAIN Protocol : Protocol[k] = name)]

\* The property, of a sequence t of calls of the protocol.  With the calls
\* in ascending order, the call a create, start, wait or logs follows is the
\* call just before it.
ProtocolOrder(t) ==
    \A i \in DOMAIN t :
        /\ i > 1 => Stage[t[i - 1].op] < Stage[t[i].op]
        /\ \A k \in 2..5 :
              t[i].op = Protocol[k]
              => i > 1 /\ t[i - 1] = Op(Protocol[k - 1], "ok")
        /\ t[i].res # "ok" => \A j \in (i + 1)..Len(t) : t[j].op = "remove"
        /\ t[i].op = "remove"
           => /\ \E j \in 1..(i - 1) : t[j] = Op("create", "ok")
              /\ \E j \in 1..(i - 1) : t[j] = Op("wait", "ok") \/ t[j].res # "ok"

\* The calls of the protocol r has made, with the decoding of the logs, in
\* the order it made them.
ProtocolTrace(r) == SelectSeq(ops[r], LAMBDA o : o.op \in ProtocolOps)

C14_ContainerProtocolOrder ==
    \A r \in Runs : \A t \in {ProtocolTrace(r)} : ProtocolOrder(t)

\* container.start() raised: no wait and no logs, and the container has been
\* removed.
C14_Witness ==
    \E r \in Runs :
        /\ Did(r, "start", "DockerException")
        /\ Calls(r, "wait") = {} /\ Calls(r, "logs") = {}
        /\ Did(r, "remove", "ok")
        /\ pc[r] = "exited"

(***************************************************************************)
(* C15 (pipeline stage order).  The calls of an invocation come stage by   *)
(* stage: provisioning, orchestration, output capture, teardown, report.   *)
(* The baseline snapshot follows the last copy and precedes the creation   *)
(* of the container; output capture follows the classification and the     *)
(* attempt to remove the container, and precedes the first attempt to      *)
(* remove the temporary directory; an invocation that created its          *)
(* temporary directory reports only after an attempt to remove it, on      *)
(* success as on every exception path.  The code violates the last part    *)
(* when __enter__ raises after mkdtemp().                                  *)
(***************************************************************************)
StageOf(name) ==
    IF name \in {"rmtree_results", "mkdir_results", "mkdtemp", "copy", "snapshot"}
    THEN 1
    ELSE IF name \in {"connect", "pull", "create", "start", "wait", "logs",
                      "decode", "remove"}
    THEN 2
    ELSE IF name = "capture_outputs" THEN 3
    ELSE IF name = "rmtree_temp" THEN 4
    ELSE 5

Before(r, first, then) ==
    \A i \in Calls(r, first), j \in Calls(r, then) : i < j

StagesInOrder(r) ==
    /\ \A i, j \in DOMAIN ops[r] :
          i < j => StageOf(ops[r][i].op) <= StageOf(ops[r][j].op)
    /\ Before(r, "copy", "snapshot")
    /\ Calls(r, "create") # {} => Did(r, "snapshot", "ok")
    /\ Calls(r, "capture_outputs") # {}
       => /\ observed[r].status \in Classified
          /\ Did(r, "create", "ok") => Calls(r, "remove") # {}

ReportsAfterTeardown(r) ==
    (pc[r] = "exited" /\ Did(r, "mkdtemp", "ok"))
    => \E i \in Calls(r, "rmtree_temp") :
          /\ \A j \in Calls(r, "handle_exit") : i < j
          /\ ops[r][i].res = "ok" \/ GaveUp(r)

C15_PipelineStageOrder ==
    \A r \in Runs : StagesInOrder(r) /\ ReportsAfterTeardown(r)

(***************************************************************************)
(* C16 (the teardown loop terminates).  With a clock that advances by at   *)
(* least the interval on each sleep, the loop of __exit__ makes at most    *)
(* timeout / interval + 2 attempts to remove the temporary directory, and   *)
(* at least one.  A successful attempt is the last one.  A failed attempt  *)
(* is followed by a sleep and another attempt only if no more than the     *)
(* timeout has elapsed; the first failed attempt after that ends the loop, *)
(* with one line about the directory left behind on sys.stderr.  An        *)
(* invocation that never created a temporary directory makes no attempt.   *)
(***************************************************************************)
MaxAttempts == (timeout \div interval) + 2

Fatal(r) == {i \in DOMAIN stderr[r] : stderr[r][i] = "FATAL: Failed to clean up temp dir"}

LoopDone(r) == pc[r] \in {"report", "exited"}

\* The outcomes of the attempts r has made to remove its temporary directory.
Attempts(r) ==
    SelectSeq(ops[r], LAMBDA o : o.op = "rmtree_temp")

TeardownLoopOf(r, t) ==
    LET gave_up == LoopDone(r) /\ t # <<>> /\ t[Len(t)].res = "OSError"
    IN  /\ Len(t) <= MaxAttempts
        /\ \A i \in 1..(Len(t) - 1) : t[i].res = "OSError"
        /\ (t # <<>> /\ t[Len(t)].res = "ok") => LoopDone(r)
        /\ (LoopDone(r) /\ Did(r, "snapshot", "ok")) => t # <<>>
        /\ temp_dir[r] = "None" => t = <<>>
        /\ Cardinality(Fatal(r)) = (IF gave_up THEN 1 ELSE 0)
        /\ gave_up => clock - start_time[r] > timeout

TeardownLoop(r) == TeardownLoopOf(r, Attempts(r))

TeardownTurn(r) ==
    (pc[r] = "exit_loop" /\ pc'[r] = "exit_loop")
    => /\ clock - start_time[r] <= timeout
       /\ clock' >= clock + interval
       /\ ops'[r] = Append(ops[r], Op("rmtree_temp", "OSError"))

C17_ResultsReflectTheRun ==
    \A r \in Runs :
        pc[r] = "exited"
        => /\ payload[r].status \in Classified
              => /\ results_at_exit[r].exists
                 /\ results_at_exit[r].names = Range(payload[r].captured_files)
                 /\ listing("results") = results_at_exit[r]
           /\ ("error_type" \in payload[r].keys
               /\ payload[r].error_type = "docker_daemon_error")
              => results_at_exit[r] = [exists |-> TRUE, names |-> {}]

\* ./results held a file of an earlier run; the invocation has reported a
\* classified status with a captured file, and ./results holds just that.
C17_Witness ==
    \E r \in Runs :
        /\ pc[r] = "exited"
        /\ "results" \in fs0.dirs /\ fs0.entries["results"]["old.txt"] = "old"
        /\ payload[r].status \in Classified
        /\ payload[r].captured_files # <<>>
        /\ results_at_exit[r].names = Range(payload[r].captured_files)

(***************************************************************************)
(* C18 (provisioning leaves the declared sources unchanged).  Once         *)
(* validation has passed, and until output capture, the script, the        *)
(* manifest and every declared input are at their paths as they were when  *)
(* the invocation began, also those inside ./results: every file validated *)
(* as existing exists when __enter__ copies it.  The code violates it: the *)
(* reset of ./results removes the declared files that are in it.           *)
(***************************************************************************)
ValidationPassed(r) ==
    /\ pc[r] \notin {"idle", "start"}
    /\ \A p \in Declared(config[r]) : WasFile(p)

C18_SourcesSurviveProvisioning ==
    \A r \in Runs :
        (ValidationPassed(r) /\ Calls(r, "capture_outputs") = {})
        => \A p \in Declared(config[r]) :
              /\ p.dir \in fs_dirs
              /\ fs_entries[p.dir][p.name] = fs0.entries[p.dir][p.name]

====
